---- MODULE Spec2Model ----
(***************************************************************************)
(* Natural-language task parser (natural-language-parser): parseTaskInput  *)
(* and the extractors it delegates to, modelled on character strings.      *)
(* A text is handled as the sequence of its characters; positions are      *)
(* 1-based; a regular expression is a syntax tree interpreted with         *)
(* JavaScript's backtracking priorities (leftmost start, greedy            *)
(* quantifiers, alternatives in written order).                            *)
(***************************************************************************)
EXTENDS Integers, Sequences, FiniteSets, TLC

(***************************************************************************)
(* Characters and character classes of the regular expressions.            *)
(***************************************************************************)
Digit == {"0", "1", "2", "3", "4", "5", "6", "7", "8", "9"}

LowerLetter ==
  {"a", "b", "c", "d", "e", "f", "g", "h", "i", "j", "k", "l", "m",
   "n", "o", "p", "q", "r", "s", "t", "u", "v", "w", "x", "y", "z"}

UpperLetter ==
  {"A", "B", "C", "D", "E", "F", "G", "H", "I", "J", "K", "L", "M",
   "N", "O", "P", "Q", "R", "S", "T", "U", "V", "W", "X", "Y", "Z"}

\* \w
WordChar == LowerLetter \cup UpperLetter \cup Digit \cup {"_"}

\* \s
Space == {" ", "\t", "\n"}

\* String.prototype.toLowerCase, one character
LowerOf ==
  [A |-> "a", B |-> "b", C |-> "c", D |-> "d", E |-> "e", F |-> "f",
   G |-> "g", H |-> "h", I |-> "i", J |-> "j", K |-> "k", L |-> "l",
   M |-> "m", N |-> "n", O |-> "o", P |-> "p", Q |-> "q", R |-> "r",
   S |-> "s", T |-> "t", U |-> "u", V |-> "v", W |-> "w", X |-> "x",
   Y |-> "y", Z |-> "z"]

LowerChar(c) == IF c \in UpperLetter THEN LowerOf[c] ELSE c

\* the characters of a string, and the string of a sequence of characters
Chars(str) == [i \in 1..Len(str) |-> SubSeq(str, i, i)]

RECURSIVE Text(_)
Text(cs) ==
  IF Len(cs) = 0 THEN ""
  ELSE IF Len(cs) = 1 THEN cs[1]
  ELSE LET h == Len(cs) \div 2
       IN  Text(SubSeq(cs, 1, h)) \o Text(SubSeq(cs, h + 1, Len(cs)))

\* String.prototype.toLowerCase
toLowerCase(cs) == [i \in DOMAIN cs |-> LowerChar(cs[i])]

Min(set) == CHOOSE x \in set : \A y \in set : x <= y
Max(set) == CHOOSE x \in set : \A y \in set : x >= y

(***************************************************************************)
(* Regular expressions as syntax trees.                                    *)
(***************************************************************************)
\* one character of a class: [..], \d, \s
Set(S) == [t |-> "set", set |-> S]
\* a literal, matched exactly
Str(w) == [t |-> "str", w |-> Chars(w)]
\* a literal under the i flag (w is written in lower case)
StrI(w) == [t |-> "stri", w |-> Chars(w)]
\* concatenation
Cat(items) == [t |-> "cat", items |-> items]
\* alternation a|b|c, tried in written order
Alt(items) == [t |-> "alt", items |-> items]
\* greedy quantifier {min,max}; max = -1 is unbounded
Rep(a, min, max) == [t |-> "rep", a |-> a, min |-> min, max |-> max]
\* capture group number k
Grp(k, a) == [t |-> "grp", k |-> k, a |-> a]
\* \b
WB == [t |-> "wb"]
\* ^ and $
BOL == [t |-> "bol"]
EOL == [t |-> "eol"]

Opt(a) == Rep(a, 0, 1)
Plus(a) == Rep(a, 1, -1)
Star(a) == Rep(a, 0, -1)

IsWordAt(s, i) == i >= 1 /\ i <= Len(s) /\ s[i] \in WordChar

\* \b holds at position i (between s[i-1] and s[i])
AtWordBoundary(s, i) == IsWordAt(s, i - 1) # IsWordAt(s, i)

LitMatches(w, s, i, fold) ==
  /\ i + Len(w) - 1 <= Len(s)
  /\ \A k \in 1..Len(w) : (IF fold THEN LowerChar(s[i + k - 1]) ELSE s[i + k - 1]) = w[k]

SetCap(c, k, span) ==
  [g \in DOMAIN c \cup {k} |-> IF g = k THEN span ELSE c[g]]

\* M(re, s, i, c): the ways re matches s from position i, in the order the
\* backtracking matcher tries them; each is the position after the match
\* and the capture groups set so far.
RECURSIVE M(_, _, _, _), MAll(_, _, _, _, _), MCat(_, _, _, _),
          MAlt(_, _, _, _, _, _), MRep(_, _, _, _, _)
\* the matches ms of a group's body, with the group's span recorded
MGrp(g, i, ms) ==
  IF ms = <<>> THEN <<>>
  ELSE [k \in 1..Len(ms) |->
          [p |-> ms[k].p, c |-> SetCap(ms[k].c, g, <<i, ms[k].p>>)]]

M(re, s, i, c) ==
  CASE re.t = "set" ->
         IF i <= Len(s) /\ s[i] \in re.set
         THEN <<[p |-> i + 1, c |-> c]>> ELSE <<>>
    [] re.t = "str" ->
         IF LitMatches(re.w, s, i, FALSE)
         THEN <<[p |-> i + Len(re.w), c |-> c]>> ELSE <<>>
    [] re.t = "stri" ->
         IF LitMatches(re.w, s, i, TRUE)
         THEN <<[p |-> i + Len(re.w), c |-> c]>> ELSE <<>>
    [] re.t = "wb" ->
         IF AtWordBoundary(s, i) THEN <<[p |-> i, c |-> c]>> ELSE <<>>
    [] re.t = "bol" -> IF i = 1 THEN <<[p |-> i, c |-> c]>> ELSE <<>>
    [] re.t = "eol" ->
         IF i = Len(s) + 1 THEN <<[p |-> i, c |-> c]>> ELSE <<>>
    [] re.t = "cat" -> MCat(re.items, 1, s, <<[p |-> i, c |-> c]>>)
    [] re.t = "alt" -> MAlt(re.items, 1, Len(re.items), s, i, c)
    [] re.t = "rep" -> MRep(re, s, i, c, 0)
    [] re.t = "grp" -> MGrp(re.k, i, M(re.a, s, i, c))

\* re continued from each of the matches ms[lo..hi], in their order
MAll(re, s, ms, lo, hi) ==
  IF lo >= hi THEN M(re, s, ms[lo].p, ms[lo].c)
  ELSE MAll(re, s, ms, lo, (lo + hi) \div 2)
       \o MAll(re, s, ms, (lo + hi) \div 2 + 1, hi)

\* the items from the k-th on, one after the other, continued from the
\* matches ms
MCat(items, k, s, ms) ==
  IF ms = <<>> \/ k > Len(items) THEN ms
  ELSE MCat(items, k + 1, s, MAll(items[k], s, ms, 1, Len(ms)))

\* the alternatives items[lo..hi], in written order
MAlt(items, lo, hi, s, i, c) ==
  IF lo >= hi THEN M(items[lo], s, i, c)
  ELSE MAlt(items, lo, (lo + hi) \div 2, s, i, c)
       \o MAlt(items, (lo + hi) \div 2 + 1, hi, s, i, c)

RECURSIVE MRepAll(_, _, _, _, _, _)
MRepAll(re, s, ms, k, i, n) ==
  IF k > Len(ms) THEN <<>>
  ELSE (IF ms[k].p > i THEN MRep(re, s, ms[k].p, ms[k].c, n) ELSE <<>>)
       \o MRepAll(re, s, ms, k + 1, i, n)

\* the matches ending at positions hi, hi-1, ..., lo
Downto(hi, lo, c) ==
  IF hi < lo THEN <<>>
  ELSE [k \in 1..(hi - lo + 1) |-> [p |-> hi - k + 1, c |-> c]]

\* greedy: one more repetition first, stopping here last; a repeated
\* character class takes the longest run and gives it back one by one
MRep(re, s, i, c, n) ==
  IF re.a.t = "set" /\ n = 0
  THEN LET stop == {j \in i..Len(s) : s[j] \notin re.a.set}
           run == (IF stop = {} THEN Len(s) + 1 ELSE Min(stop)) - i
           most == IF re.max >= 0 /\ run > re.max THEN re.max ELSE run
       IN  Downto(i + most, i + re.min, c)
  ELSE LET more == IF re.max >= 0 /\ n >= re.max THEN <<>>
                   ELSE MRepAll(re, s, M(re.a, s, i, c), 1, i, n + 1)
           here == IF n >= re.min THEN <<[p |-> i, c |-> c]>> ELSE <<>>
       IN  more \o here

NoMatch == [found |-> FALSE]

\* whether re can match the empty string, and the characters (in lower
\* case) a non-empty match of re can begin with
RECURSIVE Nullable(_)
Nullable(re) ==
  CASE re.t = "set" -> FALSE
    [] re.t \in {"str", "stri"} -> re.w = <<>>
    [] re.t \in {"wb", "bol", "eol"} -> TRUE
    [] re.t = "cat" -> \A k \in DOMAIN re.items : Nullable(re.items[k])
    [] re.t = "alt" -> \E k \in DOMAIN re.items : Nullable(re.items[k])
    [] re.t = "rep" -> re.min = 0 \/ Nullable(re.a)
    [] re.t = "grp" -> Nullable(re.a)

RECURSIVE First(_)
First(re) ==
  CASE re.t = "set" -> {LowerChar(c) : c \in re.set}
    [] re.t \in {"str", "stri"} ->
         IF re.w = <<>> THEN {} ELSE {LowerChar(re.w[1])}
    [] re.t \in {"wb", "bol", "eol"} -> {}
    [] re.t = "cat" ->
         UNION {First(re.items[k]) :
                  k \in {n \in DOMAIN re.items :
                           \A j \in 1..(n - 1) : Nullable(re.items[j])}}
    [] re.t = "alt" -> UNION {First(re.items[k]) : k \in DOMAIN re.items}
    [] re.t = "rep" -> First(re.a)
    [] re.t = "grp" -> First(re.a)

\* a regular expression literal: the tree with what decides where it can start
Re(ast) == [ast |-> ast, nullable |-> Nullable(ast), first |-> First(ast)]

MayStartAt(re, s, i) ==
  re.nullable \/ (i <= Len(s) /\ LowerChar(s[i]) \in re.first)

\* RegExp.prototype.exec from position `from`: the leftmost match
Exec(re, s, from) ==
  LET starts == {i \in from..(Len(s) + 1) :
                   MayStartAt(re, s, i) /\ M(re.ast, s, i, <<>>) # <<>>}
  IN  IF starts = {} THEN NoMatch
      ELSE LET start == Min(starts)
               m == M(re.ast, s, start, <<>>)[1]
           IN  [found |-> TRUE, start |-> start, end |-> m.p, c |-> m.c]

\* String.prototype.match without the g flag, and RegExp.prototype.test
Match(re, s) == Exec(re, s, 1)
Test(re, s) == Match(re, s).found

\* the text of capture group k of a match (m[k]); empty stands for undefined
Group(m, s, k) ==
  IF k \in DOMAIN m.c THEN SubSeq(s, m.c[k][1], m.c[k][2] - 1) ELSE <<>>

HasGroup(m, k) == k \in DOMAIN m.c

\* String.prototype.replace(re, by) without the g flag: the first match only
ReplaceFirst(re, s, by) ==
  LET m == Match(re, s)
  IN  IF m.found
      THEN SubSeq(s, 1, m.start - 1) \o by \o SubSeq(s, m.end, Len(s))
      ELSE s

\* String.prototype.replace(re, by) with the g flag: every match
RECURSIVE ReplaceAllFrom(_, _, _, _)
ReplaceAllFrom(re, s, from, by) ==
  LET m == Exec(re, s, from)
  IN  IF ~m.found THEN SubSeq(s, from, Len(s))
      ELSE SubSeq(s, from, m.start - 1) \o by
           \o (IF m.end > m.start
               THEN ReplaceAllFrom(re, s, m.end, by)
               ELSE IF m.start > Len(s) THEN <<>>
               ELSE <<s[m.start]>> \o ReplaceAllFrom(re, s, m.start + 1, by))

ReplaceAll(re, s, by) == ReplaceAllFrom(re, s, 1, by)

\* String.prototype.match with the g flag: the matched texts, in text order
RECURSIVE MatchAllFrom(_, _, _)
MatchAllFrom(re, s, from) ==
  LET m == Exec(re, s, from)
  IN  IF ~m.found THEN <<>>
      ELSE <<SubSeq(s, m.start, m.end - 1)>>
           \o MatchAllFrom(re, s, IF m.end > m.start THEN m.end ELSE m.start + 1)

MatchAll(re, s) == MatchAllFrom(re, s, 1)

\* String.prototype.trim
Trim(s) ==
  LET kept == {i \in 1..Len(s) : s[i] \notin Space}
  IN  IF kept = {} THEN <<>> ELSE SubSeq(s, Min(kept), Max(kept))

\* String.prototype.split on a one-character class: the pieces, in order
RECURSIVE SplitFrom(_, _, _)
SplitFrom(s, seps, from) ==
  LET cuts == {i \in from..Len(s) : s[i] \in seps}
  IN  IF cuts = {} THEN <<SubSeq(s, from, Len(s))>>
      ELSE <<SubSeq(s, from, Min(cuts) - 1)>> \o SplitFrom(s, seps, Min(cuts) + 1)
Split(s, seps) == SplitFrom(s, seps, 1)

DigitValue ==
  [c \in Digit |->
     CASE c = "0" -> 0 [] c = "1" -> 1 [] c = "2" -> 2 [] c = "3" -> 3
       [] c = "4" -> 4 [] c = "5" -> 5 [] c = "6" -> 6 [] c = "7" -> 7
       [] c = "8" -> 8 [] c = "9" -> 9]

\* parseInt(s, 10) of a string of digits
RECURSIVE parseInt(_)
parseInt(s) ==
  IF s = <<>> THEN 0
  ELSE 10 * parseInt(SubSeq(s, 1, Len(s) - 1)) + DigitValue[s[Len(s)]]

\* String(n).padStart(2, '0')
padStart2(n) == IF n < 10 /\ n >= 0 THEN "0" \o ToString(n) ELSE ToString(n)

(***************************************************************************)
(* The patterns of the parser.                                             *)
(***************************************************************************)
D == Set(Digit)
S0 == Star(Set(Space))
S1 == Plus(Set(Space))

FullDayNames ==
  <<StrI("monday"), StrI("tuesday"), StrI("wednesday"), StrI("thursday"),
    StrI("friday"), StrI("saturday"), StrI("sunday")>>

ShortDayNames ==
  <<StrI("mon"), StrI("tue"), StrI("wed"), StrI("thu"), StrI("fri"),
    StrI("sat"), StrI("sun")>>

MonthNames ==
  <<StrI("january"), StrI("february"), StrI("march"), StrI("april"),
    StrI("may"), StrI("june"), StrI("july"), StrI("august"),
    StrI("september"), StrI("october"), StrI("november"), StrI("december"),
    StrI("jan"), StrI("feb"), StrI("mar"), StrI("apr"), StrI("may"),
    StrI("jun"), StrI("jul"), StrI("aug"), StrI("sep"), StrI("oct"),
    StrI("nov"), StrI("dec")>>

UnitNames ==
  <<StrI("day"), StrI("days"), StrI("week"), StrI("weeks"), StrI("month"),
    StrI("months"), StrI("hour"), StrI("hours"), StrI("minute"),
    StrI("minutes")>>

DateSep == Set({"/", "-", "."})

\* (0?[0-9]|1[0-9]|2[0-3]):([0-5][0-9])
ClockRe ==
  <<Grp(1, Alt(<<Cat(<<Opt(Str("0")), D>>),
                Cat(<<Str("1"), D>>),
                Cat(<<Str("2"), Set({"0", "1", "2", "3"})>>)>>)),
    Str(":"),
    Grp(2, Cat(<<Set({"0", "1", "2", "3", "4", "5"}), D>>))>>

TIME_PATTERNS ==
  << \* /\b(0?[0-9]|1[0-9]|2[0-3]):([0-5][0-9])\s*(am|pm|AM|PM)?\b/
     Re(Cat(<<WB>> \o ClockRe
         \o <<S0, Opt(Grp(3, Alt(<<Str("am"), Str("pm"), Str("AM"), Str("PM")>>))),
              WB>>)),
     \* /\b(morning|afternoon|evening|night|tonight)\b/i
     Re(Cat(<<WB, Grp(1, Alt(<<StrI("morning"), StrI("afternoon"), StrI("evening"),
                           StrI("night"), StrI("tonight")>>)), WB>>)),
     \* /\b(at\s+)?(\d{1,2})(?::(\d{2}))?\s*(am|pm|AM|PM)\b/i
     Re(Cat(<<WB, Opt(Grp(1, Cat(<<StrI("at"), S1>>))), Grp(2, Rep(D, 1, 2)),
           Opt(Cat(<<Str(":"), Grp(3, Rep(D, 2, 2))>>)), S0,
           Grp(4, Alt(<<StrI("am"), StrI("pm"), StrI("am"), StrI("pm")>>)), WB>>)) >>

DATE_PATTERNS ==
  << \* /\b(today)\b/i
     Re(Cat(<<WB, Grp(1, StrI("today")), WB>>)),
     \* /\b(tomorrow)\b/i
     Re(Cat(<<WB, Grp(1, StrI("tomorrow")), WB>>)),
     \* /\b(tonight)\b/i
     Re(Cat(<<WB, Grp(1, StrI("tonight")), WB>>)),
     \* /\b(next\s+(monday|...|sunday))\b/i
     Re(Cat(<<WB, Grp(1, Cat(<<StrI("next"), S1, Grp(2, Alt(FullDayNames))>>)), WB>>)),
     \* /\b(mon|tue|wed|thu|fri|sat|sun)\b/i
     Re(Cat(<<WB, Grp(1, Alt(ShortDayNames)), WB>>)),
     \* /\b(monday|...|sunday)\b/i
     Re(Cat(<<WB, Grp(1, Alt(FullDayNames)), WB>>)),
     \* /\b(\d{1,2})[\/\-.](\d{1,2})[\/\-.](\d{2,4})\b/
     Re(Cat(<<WB, Grp(1, Rep(D, 1, 2)), DateSep, Grp(2, Rep(D, 1, 2)), DateSep,
           Grp(3, Rep(D, 2, 4)), WB>>)),
     \* /\b(january|...|dec)\s+(\d{1,2})\b/i
     Re(Cat(<<WB, Grp(1, Alt(MonthNames)), S1, Grp(2, Rep(D, 1, 2)), WB>>)),
     \* /\b(in\s+)?(\d+)\s+(day|days|...|minutes)\b/i
     Re(Cat(<<WB, Opt(Grp(1, Cat(<<StrI("in"), S1>>))), Grp(2, Plus(D)), S1,
           Grp(3, Alt(UnitNames)), WB>>)) >>

TagChar == LowerLetter \cup UpperLetter \cup Digit \cup {"_", "-"}
TagListChar == LowerLetter \cup UpperLetter \cup Digit \cup {"_", ","} \cup Space

TAG_PATTERNS ==
  << \* /#([a-zA-Z0-9_-]+)/g
     Re(Cat(<<Str("#"), Grp(1, Plus(Set(TagChar)))>>)),
     \* /tag:\s*([a-zA-Z0-9_\s,]+)/gi
     Re(Cat(<<StrI("tag:"), S0, Grp(1, Plus(Set(TagListChar)))>>)) >>

DAYS_OF_WEEK ==
  [monday |-> 1, tuesday |-> 2, wednesday |-> 3, thursday |-> 4, friday |-> 5,
   saturday |-> 6, sunday |-> 0, mon |-> 1, tue |-> 2, wed |-> 3, thu |-> 4,
   fri |-> 5, sat |-> 6, sun |-> 0]

MONTHS ==
  [january |-> 0, february |-> 1, march |-> 2, april |-> 3, may |-> 4,
   june |-> 5, july |-> 6, august |-> 7, september |-> 8, october |-> 9,
   november |-> 10, december |-> 11, jan |-> 0, feb |-> 1, mar |-> 2,
   apr |-> 3, jun |-> 5, jul |-> 6, aug |-> 7, sep |-> 8, oct |-> 9,
   nov |-> 10, dec |-> 11]

(***************************************************************************)
(* JavaScript Date in local time: the local calendar day, counted in days  *)
(* from 1970-01-01, and the milliseconds since local midnight. Months are  *)
(* 0-based as in JavaScript; day and month overflow carry as Date does.    *)
(***************************************************************************)
MsPerDay == 24 * 60 * 60 * 1000
MsPerHour == 60 * 60 * 1000
MsPerMinute == 60 * 1000

\* days from 1970-01-01 to the proleptic Gregorian day y-m-d (m in 1..12)
DaysFromCivil(y, m, d) ==
  LET yy == IF m <= 2 THEN y - 1 ELSE y
      era == yy \div 400
      yoe == yy - era * 400
      mp == IF m > 2 THEN m - 3 ELSE m + 9
      doy == (153 * mp + 2) \div 5 + d - 1
      doe == yoe * 365 + yoe \div 4 - yoe \div 100 + doy
  IN  era * 146097 + doe - 719468

\* the calendar day (y, m in 1..12, d) of a day number
CivilFromDays(z) ==
  LET zz == z + 719468
      era == zz \div 146097
      doe == zz - era * 146097
      yoe == (doe - doe \div 1460 + doe \div 36524 - doe \div 146096) \div 365
      doy == doe - (365 * yoe + yoe \div 4 - yoe \div 100)
      mp == (5 * doy + 2) \div 153
      dd == doy - (153 * mp + 2) \div 5 + 1
      mm == IF mp < 10 THEN mp + 3 ELSE mp - 9
  IN  [y |-> yoe + era * 400 + (IF mm <= 2 THEN 1 ELSE 0), m |-> mm, d |-> dd]

\* MakeDay(year, month, date): month is 0-based and may overflow, date may too
MakeDay(year, month, date) ==
  DaysFromCivil(year + month \div 12, (month % 12) + 1, 1) + date - 1

\* time-of-day overflow carries into the day
MakeDate(day, ms) == [day |-> day + ms \div MsPerDay, ms |-> ms % MsPerDay]

\* new Date(year, month, day): local midnight; years 0..99 mean 1900..1999
NewDateYMD(year, month, day) ==
  MakeDate(MakeDay(IF year >= 0 /\ year <= 99 THEN 1900 + year ELSE year,
                   month, day), 0)

getFullYear(d) == CivilFromDays(d.day).y
getMonth(d) == CivilFromDays(d.day).m - 1
getDate(d) == CivilFromDays(d.day).d
\* 1970-01-01 was a Thursday; 0 is Sunday
getDay(d) == (d.day + 4) % 7
getHours(d) == d.ms \div MsPerHour
getMinutes(d) == (d.ms \div MsPerMinute) % 60

setDate(d, n) == MakeDate(MakeDay(getFullYear(d), getMonth(d), n), d.ms)
setMonth(d, m) == MakeDate(MakeDay(getFullYear(d), m, getDate(d)), d.ms)
setFullYear(d, y) == MakeDate(MakeDay(y, getMonth(d), getDate(d)), d.ms)
\* setHours(0, 0, 0, 0)
setHours0(d) == MakeDate(d.day, 0)
\* setHours(h): minutes, seconds and milliseconds are kept
setHours(d, h) == MakeDate(d.day, h * MsPerHour + (d.ms % MsPerHour))
\* setMinutes(m): hours, seconds and milliseconds are kept
setMinutes(d, m) ==
  MakeDate(d.day, getHours(d) * MsPerHour + m * MsPerMinute + (d.ms % MsPerMinute))

\* a < b on Dates
DateLess(a, b) == a.day < b.day \/ (a.day = b.day /\ a.ms < b.ms)

\* null, and a present value
Null == <<>>
Some(v) == <<v>>

StartsWith(s, w) == Len(s) >= Len(w) /\ SubSeq(s, 1, Len(w)) = Chars(w)

(***************************************************************************)
(* parseDate: the rules in the order of the code; `now` is new Date().     *)
(***************************************************************************)
AllDayNames == FullDayNames \o ShortDayNames

TodayRe == Re(Cat(<<WB, Str("today"), WB>>))
TomorrowRe == Re(Cat(<<WB, Str("tomorrow"), WB>>))
NextDayRe == Re(Cat(<<WB, StrI("next"), S1, Grp(1, Alt(AllDayNames)), WB>>))
DayRe == Re(Cat(<<WB, Grp(1, Alt(AllDayNames)), WB>>))
MonthDayRe == Re(Cat(<<WB, Grp(1, Alt(MonthNames)), S1, Grp(2, Rep(D, 1, 2)), WB>>))
RelativeRe ==
  Re(Cat(<<WB, StrI("in"), S1, Grp(1, Plus(D)), S1, Grp(2, Alt(UnitNames)), WB>>))
NumericRe ==
  Re(Cat(<<WB, Grp(1, Rep(D, 1, 2)), DateSep, Grp(2, Rep(D, 1, 2)), DateSep,
           Grp(3, Rep(D, 2, 4)), WB>>))

\* Today
DateToday(now) == setHours0(now)

\* Tomorrow
DateTomorrow(now) == setHours0(setDate(now, getDate(now) + 1))

\* DateNextDay without "if (daysUntil === 0) daysUntil = 7"
DateNextDay_SameDayAllowed(dayName, now) ==
  LET targetDay == DAYS_OF_WEEK[Text(dayName)]
      currentDay == getDay(now)
      daysUntil == (targetDay - currentDay + 7) % 7
  IN  setHours0(setDate(now, getDate(now) + daysUntil))

\* Next Monday, Tuesday, etc.
DateNextDay(dayName, now) ==
  LET targetDay == DAYS_OF_WEEK[Text(dayName)]
      currentDay == getDay(now)
      d0 == (targetDay - currentDay + 7) % 7
      daysUntil == IF d0 = 0 THEN 7 ELSE d0
  IN  setHours0(setDate(now, getDate(now) + daysUntil))

\* DateDay that skips a week when today is the named day
DateDay_SkipToday(dayName, now) ==
  LET targetDay == DAYS_OF_WEEK[Text(dayName)]
      currentDay == getDay(now)
      d0 == (targetDay - currentDay + 7) % 7
      daysUntil == IF d0 = 0 THEN 7 ELSE d0
  IN  setHours0(setDate(now, getDate(now) + daysUntil))

\* Day of week (today or next occurrence)
DateDay(dayName, now) ==
  LET targetDay == DAYS_OF_WEEK[Text(dayName)]
      currentDay == getDay(now)
      d0 == (targetDay - currentDay + 7) % 7
      daysUntil == IF d0 < 0 THEN d0 + 7 ELSE d0
  IN  setHours0(setDate(now, getDate(now) + daysUntil))

\* DateMonthDay that rolls to the next year when the date is not after now
DateMonthDay_RollWhenNotAfter(monthName, dayText, now) ==
  LET day == parseInt(dayText)
      month == MONTHS[Text(monthName)]
      year == getFullYear(now)
      date == NewDateYMD(year, month, day)
      rolled == IF ~DateLess(now, date) THEN setFullYear(date, year + 1) ELSE date
  IN  setHours0(rolled)

\* Month and day: "January 15" or "Jan 15"
DateMonthDay(monthName, dayText, now) ==
  LET day == parseInt(dayText)
      month == MONTHS[Text(monthName)]
      year == getFullYear(now)
      date == NewDateYMD(year, month, day)
      \* If the date is in the past, use next year
      rolled == IF DateLess(date, now) THEN setFullYear(date, year + 1) ELSE date
  IN  setHours0(rolled)

\* DateRelative without the final "date.setHours(0, 0, 0, 0)"
DateRelative_KeepClock(amountText, unit, now) ==
  LET amount == parseInt(amountText)
  IN  IF StartsWith(unit, "day") THEN setDate(now, getDate(now) + amount)
      ELSE IF StartsWith(unit, "week") THEN setDate(now, getDate(now) + amount * 7)
      ELSE IF StartsWith(unit, "month") THEN setMonth(now, getMonth(now) + amount)
      ELSE IF StartsWith(unit, "hour") THEN setHours(now, getHours(now) + amount)
      ELSE IF StartsWith(unit, "minute") THEN setMinutes(now, getMinutes(now) + amount)
      ELSE now

\* DateRelative that leaves the clock alone for hours and minutes
DateRelative_DaysOnly(amountText, unit, now) ==
  LET amount == parseInt(amountText)
      date ==
        IF StartsWith(unit, "day") THEN setDate(now, getDate(now) + amount)
        ELSE IF StartsWith(unit, "week") THEN setDate(now, getDate(now) + amount * 7)
        ELSE IF StartsWith(unit, "month") THEN setMonth(now, getMonth(now) + amount)
        ELSE now
  IN  setHours0(date)

\* Relative dates: "in 2 days", "in 1 week", etc.
DateRelative(amountText, unit, now) ==
  LET amount == parseInt(amountText)
      date ==
        IF StartsWith(unit, "day") THEN setDate(now, getDate(now) + amount)
        ELSE IF StartsWith(unit, "week") THEN setDate(now, getDate(now) + amount * 7)
        ELSE IF StartsWith(unit, "month") THEN setMonth(now, getMonth(now) + amount)
        ELSE IF StartsWith(unit, "hour") THEN setHours(now, getHours(now) + amount)
        ELSE IF StartsWith(unit, "minute") THEN setMinutes(now, getMinutes(now) + amount)
        ELSE now
  IN  setHours0(date)

\* Numeric date: MM/DD/YYYY or MM-DD-YYYY
DateNumeric(monthText, dayText, yearText) ==
  LET month == parseInt(monthText) - 1
      day == parseInt(dayText)
      y0 == parseInt(yearText)
      year == IF y0 < 100 THEN y0 + (IF y0 < 50 THEN 2000 ELSE 1900) ELSE y0
  IN  setHours0(NewDateYMD(year, month, day))

\* parseDate that tries the relative rule before the month-and-day rule
parseDate_RelativeBeforeMonthDay(text, now) ==
  LET lowerInput == toLowerCase(text)
      nextDayMatch == Match(NextDayRe, lowerInput)
      dayMatch == Match(DayRe, lowerInput)
      monthDayMatch == Match(MonthDayRe, lowerInput)
      relativeMatch == Match(RelativeRe, lowerInput)
      numericMatch == Match(NumericRe, lowerInput)
  IN  IF Test(TodayRe, lowerInput) THEN Some(DateToday(now))
      ELSE IF Test(TomorrowRe, lowerInput) THEN Some(DateTomorrow(now))
      ELSE IF nextDayMatch.found
        THEN Some(DateNextDay(toLowerCase(Group(nextDayMatch, lowerInput, 1)), now))
      ELSE IF dayMatch.found
        THEN Some(DateDay(toLowerCase(Group(dayMatch, lowerInput, 1)), now))
      ELSE IF relativeMatch.found
        THEN Some(DateRelative(Group(relativeMatch, lowerInput, 1),
                               toLowerCase(Group(relativeMatch, lowerInput, 2)), now))
      ELSE IF monthDayMatch.found
        THEN Some(DateMonthDay(toLowerCase(Group(monthDayMatch, lowerInput, 1)),
                               Group(monthDayMatch, lowerInput, 2), now))
      ELSE IF numericMatch.found
        THEN Some(DateNumeric(Group(numericMatch, lowerInput, 1),
                              Group(numericMatch, lowerInput, 2),
                              Group(numericMatch, lowerInput, 3)))
      ELSE Null

parseDate(text, now) ==
  LET lowerInput == toLowerCase(text)
      nextDayMatch == Match(NextDayRe, lowerInput)
      dayMatch == Match(DayRe, lowerInput)
      monthDayMatch == Match(MonthDayRe, lowerInput)
      relativeMatch == Match(RelativeRe, lowerInput)
      numericMatch == Match(NumericRe, lowerInput)
  IN  IF Test(TodayRe, lowerInput) THEN Some(DateToday(now))
      ELSE IF Test(TomorrowRe, lowerInput) THEN Some(DateTomorrow(now))
      ELSE IF nextDayMatch.found
        THEN Some(DateNextDay(toLowerCase(Group(nextDayMatch, lowerInput, 1)), now))
      ELSE IF dayMatch.found
        THEN Some(DateDay(toLowerCase(Group(dayMatch, lowerInput, 1)), now))
      ELSE IF monthDayMatch.found
        THEN Some(DateMonthDay(toLowerCase(Group(monthDayMatch, lowerInput, 1)),
                               Group(monthDayMatch, lowerInput, 2), now))
      ELSE IF relativeMatch.found
        THEN Some(DateRelative(Group(relativeMatch, lowerInput, 1),
                               toLowerCase(Group(relativeMatch, lowerInput, 2)), now))
      ELSE IF numericMatch.found
        THEN Some(DateNumeric(Group(numericMatch, lowerInput, 1),
                              Group(numericMatch, lowerInput, 2),
                              Group(numericMatch, lowerInput, 3)))
      ELSE Null

(***************************************************************************)
(* parseTime                                                               *)
(***************************************************************************)
\* /\b(0?[0-9]|1[0-9]|2[0-3]):([0-5][0-9])\s*(am|pm)?\b/i
StandardTimeRe ==
  Re(Cat(<<WB>> \o ClockRe \o <<S0, Opt(Grp(3, Alt(<<StrI("am"), StrI("pm")>>))), WB>>))

MorningRe == Re(Cat(<<WB, StrI("morning"), WB>>))
AfternoonRe == Re(Cat(<<WB, StrI("afternoon"), WB>>))
EveningRe == Re(Cat(<<WB, StrI("evening"), WB>>))
NightRe == Re(Cat(<<WB, StrI("night"), WB>>))
TonightRe == Re(Cat(<<WB, StrI("tonight"), WB>>))

\* TimeStandard without "if (period === 'am' && hours === 12) hours = 0"
TimeStandard_NoMidnight(hourText, minutes, period) ==
  LET h0 == parseInt(hourText)
      hours == IF Text(period) = "pm" /\ h0 # 12 THEN h0 + 12 ELSE h0
  IN  padStart2(hours) \o ":" \o Text(minutes)

\* HH:MM AM/PM
TimeStandard(hourText, minutes, period) ==
  LET h0 == parseInt(hourText)
      h1 == IF Text(period) = "pm" /\ h0 # 12 THEN h0 + 12 ELSE h0
      hours == IF Text(period) = "am" /\ h1 = 12 THEN 0 ELSE h1
  IN  padStart2(hours) \o ":" \o Text(minutes)

parseTime(text) ==
  LET lowerInput == toLowerCase(text)
      standardMatch == Match(StandardTimeRe, lowerInput)
  IN  IF standardMatch.found
        THEN Some(TimeStandard(Group(standardMatch, lowerInput, 1),
                               Group(standardMatch, lowerInput, 2),
                               toLowerCase(Group(standardMatch, lowerInput, 3))))
      \* Time words
      ELSE IF Test(MorningRe, lowerInput) THEN Some("09:00")
      ELSE IF Test(AfternoonRe, lowerInput) THEN Some("14:00")
      ELSE IF Test(EveningRe, lowerInput) THEN Some("18:00")
      ELSE IF Test(NightRe, lowerInput) THEN Some("21:00")
      ELSE IF Test(TonightRe, lowerInput) THEN Some("20:00")
      ELSE Null

(***************************************************************************)
(* extractTags: the Set of tags, in insertion order                        *)
(***************************************************************************)
Range(q) == {q[k] : k \in DOMAIN q}

\* Set.prototype.add of a non-empty tag
AddTag(tags, tag) ==
  IF tag = "" \/ tag \in Range(tags) THEN tags ELSE Append(tags, tag)

\* AddHashtags without toLowerCase()
RECURSIVE AddHashtags_KeepCase(_, _, _)
AddHashtags_KeepCase(tags, matches, k) ==
  IF k > Len(matches) THEN tags
  ELSE AddHashtags_KeepCase(AddTag(tags, Text(SubSeq(matches[k], 2, Len(matches[k])))),
                            matches, k + 1)

RECURSIVE AddHashtags(_, _, _)
AddHashtags(tags, matches, k) ==
  IF k > Len(matches) THEN tags
  ELSE AddHashtags(AddTag(tags, Text(toLowerCase(SubSeq(matches[k], 2, Len(matches[k]))))),
                   matches, k + 1)

RECURSIVE AddTagList(_, _, _)
AddTagList(tags, tagList, k) ==
  IF k > Len(tagList) THEN tags
  ELSE AddTagList(AddTag(tags, Text(toLowerCase(Trim(tagList[k])))), tagList, k + 1)

\* /tag:/i and /[,;]/
TagPrefixRe == Re(StrI("tag:"))
TagSeparator == {",", ";"}

RECURSIVE AddTagMatches(_, _, _)
AddTagMatches(tags, matches, k) ==
  IF k > Len(matches) THEN tags
  ELSE LET tagPart == Trim(ReplaceFirst(TagPrefixRe, matches[k], <<>>))
           tagList == Split(tagPart, TagSeparator)
       IN  AddTagMatches(AddTagList(tags, tagList, 1), matches, k + 1)

extractTags(text) ==
  LET hashtagMatches == MatchAll(TAG_PATTERNS[1], text)
      tagMatch == MatchAll(TAG_PATTERNS[2], text)
  IN  AddTagMatches(AddHashtags(<<>>, hashtagMatches, 1), tagMatch, 1)

(***************************************************************************)
(* cleanInput                                                              *)
(***************************************************************************)
\* patterns.forEach((pattern) => { cleaned = cleaned.replace(pattern, '') })
\* /\s+/g
SpacesRe == Re(S1)

\* the patterns lo..hi of the list, each removed once, in the list's order
RECURSIVE RemoveEach(_, _, _, _)
RemoveEach(patterns, cleaned, lo, hi) ==
  CASE cleaned = <<>> -> cleaned  \* nothing matches in an empty text
    [] lo = hi -> ReplaceFirst(patterns[lo], cleaned, <<>>)
    [] OTHER -> RemoveEach(patterns,
                           RemoveEach(patterns, cleaned, lo, (lo + hi) \div 2),
                           (lo + hi) \div 2 + 1, hi)

\* .replace(/\s+/g, ' ').trim() of the trimmed text
Squeezed(cleaned) ==
  IF cleaned = <<>> THEN <<>>
  ELSE Trim(ReplaceAll(SpacesRe, Trim(cleaned), <<" ">>))

\* the four removals and the whitespace clean-up, one after the other
Cleaned(text) ==
  Squeezed(RemoveEach(TIME_PATTERNS,
                      RemoveEach(DATE_PATTERNS,
                                 ReplaceAll(TAG_PATTERNS[2],
                                            ReplaceAll(TAG_PATTERNS[1], text, <<>>),
                                            <<>>),
                                 1, Len(DATE_PATTERNS)),
                      1, Len(TIME_PATTERNS)))

\* cleanInput without the "New Task" substitution
cleanInput_NoPlaceholder(text) == Text(Cleaned(text))

cleanInput(text) ==
  LET cleaned == Cleaned(text)
  IN  IF cleaned = <<>> THEN "New Task" ELSE Text(cleaned)

(***************************************************************************)
(* parseTaskInput                                                          *)
(***************************************************************************)
parseTaskInput(str, now) ==
  LET text == Chars(str)
  IN  [title |-> cleanInput(text),
       date |-> parseDate(text, now),
       time |-> parseTime(text),
       tags |-> extractTags(text),
       rawInput |-> str]

(***************************************************************************)
(* formatDateForDisplay                                                    *)
(***************************************************************************)
\* Intl.DateTimeFormat('en-US', {weekday: 'short', month: 'short', day: 'numeric'})
DateTimeFormat(date) ==
  LET weekday == <<"Sun", "Mon", "Tue", "Wed", "Thu", "Fri", "Sat">>
      month == <<"Jan", "Feb", "Mar", "Apr", "May", "Jun",
                 "Jul", "Aug", "Sep", "Oct", "Nov", "Dec">>
  IN  weekday[getDay(date) + 1] \o ", " \o month[getMonth(date) + 1]
        \o " " \o ToString(getDate(date))

\* formatDateForDisplay that compares the date as it is, without
\* "targetDate.setHours(0, 0, 0, 0)"
formatDateForDisplay_KeepClock(date, now) ==
  LET today == setHours0(now)
      tomorrow == setDate(today, getDate(today) + 1)
  IN  IF date = today THEN "Today"
      ELSE IF date = tomorrow THEN "Tomorrow"
      ELSE DateTimeFormat(date)

formatDateForDisplay(date, now) ==
  LET today == setHours0(now)
      tomorrow == setDate(today, getDate(today) + 1)
      targetDate == setHours0(date)
  IN  IF targetDate = today THEN "Today"
      ELSE IF targetDate = tomorrow THEN "Tomorrow"
      ELSE DateTimeFormat(date)

(***************************************************************************)
(* getDateSuggestions: the suggestions in the order pushed, each with its  *)
(* text and date (the icon is the same for all).                           *)
(***************************************************************************)
getDateSuggestions(str, now) ==
  LET \* /^t?o?d?a?y?$/i and its like: every character optional, in order
      PartialRe(items) == Re(Cat(<<BOL>> \o items \o <<EOL>>))
      Letters(w) == [k \in 1..Len(w) |-> Opt(StrI(SubSeq(w, k, k)))]
      trimmed == Trim(Chars(str))
      today == setHours0(now)
      tomorrow == setHours0(setDate(now, getDate(now) + 1))
      nextWeek == setHours0(setDate(now, getDate(now) + 7))
      s1 == IF Test(PartialRe(Letters("today")), trimmed)
            THEN <<[text |-> "Today", date |-> today]>> ELSE <<>>
      s2 == IF Test(PartialRe(Letters("tomorrow")), trimmed)
            THEN Append(s1, [text |-> "Tomorrow", date |-> tomorrow]) ELSE s1
      s3 == IF Test(PartialRe(Letters("next") \o <<Opt(Str(".")), Opt(Set(Space))>>
                                \o Letters("week")), trimmed)
            THEN Append(s2, [text |-> "Next Week", date |-> nextWeek]) ELSE s2
      \* Always include today and tomorrow as quick suggestions
      laterToday == setDate(today, getDate(today) + 1)
      s4 == IF Len(str) > 0 /\ \A k \in DOMAIN s3 : s3[k].date # today
            THEN Append(s3, [text |-> "Today", date |-> today]) ELSE s3
  IN  IF Len(str) > 0 /\ \A k \in DOMAIN s4 : s4[k].date # laterToday
      THEN Append(s4, [text |-> "Tomorrow", date |-> laterToday]) ELSE s4

(***************************************************************************)
(* The caller: a text is typed fragment by fragment, the clock is read and *)
(* parseTaskInput is called on the text. A text starts empty or as one of  *)
(* the example inputs of the test cases; fragments are joined by single    *)
(* spaces.                                                                 *)
(***************************************************************************)
MaxFragments == 2

Fragments ==
  <<"", "call", "today", "Tomorrow", "next wed", "Wednesday", "sun", "dec 25",
    "feb 30", "in 2 days", "in 1 week", "in 3 months", "in 2 hours", "in 45 minutes",
    "1/15/25", "2025-01-15", "at 2pm", "#Work">>

testCases ==
  {<<"Review report", "tomorrow", "at 2pm", "#work">>,
   <<"Buy groceries", "saturday", "evening", "#shopping", "#personal">>,
   <<"Fix bug", "in 2 days", "#bug", "tag: urgent, critical">>,
   <<"Team meeting", "next monday", "morning">>,
   <<"today", "at", "9:30am", "#urgent">>,
   <<"Call mom", "january 15">>,
   <<"Write report due", "next friday", "#work", "#urgent">>}

RECURSIVE Join(_)
Join(ws) ==
  IF ws = <<>> THEN ""
  ELSE IF Len(ws) = 1 THEN ws[1]
  ELSE ws[1] \o " " \o Join(Tail(ws))

\* local clock values: year, month 1..12, day, hour, minute, second, ms
At(y, m, d, hh, mi, ss, ms) ==
  MakeDate(DaysFromCivil(y, m, d),
           hh * MsPerHour + mi * MsPerMinute + ss * 1000 + ms)

Clocks ==
  {At(2025, 1, 15, 10, 30, 15, 250),   \* a Wednesday morning
   At(2024, 12, 25, 0, 0, 0, 0),       \* a Wednesday, exactly local midnight
   At(2024, 12, 31, 23, 30, 0, 0)}     \* a Tuesday, the last half hour of a year

\* words: the fragments typed so far;  now: the clock;  result: the value of
\* the last parseTaskInput call;  calls: the parseTaskInput calls made so far,
\* each with its input, clock value and result;  label: the last date shown
\* with formatDateForDisplay, with its text
\* suggestions: the value of the last getDateSuggestions call;  hook: the
\* state of a mounted useTasks hook and of localStorage;  quickAdd: the state
\* of a QuickAddInput;  modal: the state of a TaskDetailModal
VARIABLES words, now, result, calls, label, suggestions, hook, quickAdd, modal
vars == <<words, now, result, calls, label, suggestions, hook, quickAdd, modal>>

\* the text in the input field
input == Join(words)

Init ==
  /\ words \in {<<>>} \cup testCases
  /\ now \in Clocks
  /\ result = Null
  /\ calls = <<>>
  /\ label = Null
  /\ suggestions = Null /\ hook = Null /\ quickAdd = Null /\ modal = Null

\* one more fragment is typed
Type(w) ==
  /\ result = Null
  /\ Len(words) < MaxFragments
  /\ words' = Append(words, w)
  /\ UNCHANGED <<now, result, calls, label, suggestions, hook, quickAdd, modal>>

\* const result = parseTaskInput(input)
ParseTaskInput ==
  /\ result = Null
  /\ result' = Some(parseTaskInput(input, now))
  /\ UNCHANGED <<words, now, calls, label, suggestions, hook, quickAdd, modal>>

Next ==
  \/ \E k \in DOMAIN Fragments : Type(Fragments[k])
  \/ ParseTaskInput

Spec == Init /\ [][Next]_vars
(***************************************************************************)
(* What the typed fragments say, read off the fragments themselves: the    *)
(* date rule a fragment is an expression of (0: none), and what it names.  *)
(***************************************************************************)
parsed == result # Null
r == result[1]

RuleOfFragment(f) ==
  CASE f \in {"today"} -> 1
    [] f \in {"tomorrow", "Tomorrow"} -> 2
    [] f \in {"next wed", "next monday", "next friday"} -> 3
    [] f \in {"Wednesday", "sun", "saturday"} -> 4
    [] f \in {"dec 25", "feb 30", "january 15"} -> 5
    [] f \in {"in 2 days", "in 1 week", "in 3 months", "in 2 hours",
              "in 45 minutes"} -> 6
    [] f \in {"1/15/25"} -> 7
    [] OTHER -> 0

\* the weekday a fragment names, 0 = Sunday
WeekdayOfFragment(f) ==
  CASE f \in {"sun"} -> 0
    [] f \in {"next monday"} -> 1
    [] f \in {"next wed", "Wednesday"} -> 3
    [] f \in {"next friday"} -> 5
    [] f \in {"saturday"} -> 6

\* the month (1..12) and day a fragment names
MonthDayOfFragment(f) ==
  CASE f = "dec 25" -> [m |-> 12, d |-> 25]
    [] f = "feb 30" -> [m |-> 2, d |-> 30]
    [] f = "january 15" -> [m |-> 1, d |-> 15]

\* the amount and unit a fragment names
OffsetOfFragment(f) ==
  CASE f = "in 2 days" -> [n |-> 2, unit |-> "days"]
    [] f = "in 1 week" -> [n |-> 1, unit |-> "weeks"]
    [] f = "in 3 months" -> [n |-> 3, unit |-> "months"]
    [] f = "in 2 hours" -> [n |-> 2, unit |-> "hours"]
    [] f = "in 45 minutes" -> [n |-> 45, unit |-> "minutes"]

\* fragments that are a time expression
HourOnlyFragments == {"at 2pm"}
OtherTimeFragments == {"evening", "morning", "9:30am"}

DateRules == {RuleOfFragment(words[k]) : k \in DOMAIN words} \ {0}
WinningRule == IF DateRules = {} THEN 0 ELSE Min(DateRules)
\* the first fragment in the text that is an expression of the winning rule
WinningFragment ==
  words[Min({k \in DOMAIN words : RuleOfFragment(words[k]) = WinningRule})]

DaysInMonth(y, m) ==
  DaysFromCivil(IF m = 12 THEN y + 1 ELSE y, IF m = 12 THEN 1 ELSE m + 1, 1)
    - DaysFromCivil(y, m, 1)
DayExists(y, m, d) == d >= 1 /\ d <= DaysInMonth(y, m)

Midnight(y, m, d) == [day |-> DaysFromCivil(y, m, d), ms |-> 0]
Today == [day |-> now.day, ms |-> 0]
DaysFromToday == r.date[1].day - now.day

RECURSIVE IsSubsequence(_, _)
IsSubsequence(a, b) ==
  IF a = <<>> THEN TRUE
  ELSE IF b = <<>> THEN FALSE
  ELSE IF a[1] = b[1] THEN IsSubsequence(Tail(a), Tail(b))
  ELSE IsSubsequence(a, Tail(b))

(***************************************************************************)
(* C1                                                                      *)
(***************************************************************************)
\* C1: the title returned by parseTaskInput is never empty; it has no
\* leading or trailing white space and no run of white space other than a
\* single space; it is the placeholder "New Task" or what is left of the
\* input's characters, in order, after removals; an input of nothing but
\* white space yields the placeholder.
C1_TitleNonEmpty ==
  parsed =>
    LET title == Chars(r.title)
        n == Len(title)
    IN  /\ n > 0
        /\ title[1] \notin Space /\ title[n] \notin Space
        /\ \A i \in 1..n : title[i] \in Space => title[i] = " "
        /\ \A i \in 1..(n - 1) : ~(title[i] = " " /\ title[i + 1] = " ")
        /\ r.title = "New Task" \/ IsSubsequence(title, Chars(input))
        /\ (\A c \in Range(Chars(input)) : c \in Space) => r.title = "New Task"

\* the placeholder fired on an input that is not empty
C1_Witness ==
  parsed /\ Len(input) > 1 /\ r.title = "New Task" /\ r.rawInput = input

(***************************************************************************)
(* C2                                                                      *)
(***************************************************************************)
\* C2: an input whose only time expression is an hour-only clock time with a
\* meridiem marker ("at 2pm") gets time "14:00"; "Review report tomorrow at
\* 2pm #work" gets title "Review report", date tomorrow, time "14:00", tags
\* {work}.
C2_HourOnlyTime ==
  (/\ parsed
   /\ \E k \in DOMAIN words : words[k] \in HourOnlyFragments
   /\ \A k \in DOMAIN words : words[k] \notin OtherTimeFragments)
  => /\ r.time = Some("14:00")
     /\ words = <<"Review report", "tomorrow", "at 2pm", "#work">> =>
          /\ r.title = "Review report"
          /\ r.date = Some([day |-> now.day + 1, ms |-> 0])
          /\ r.tags = <<"work">>

(***************************************************************************)
(* C3                                                                      *)
(***************************************************************************)
\* C3: parseTaskInput("today at 9:30am #urgent") returns title "New Task",
\* date today, time "09:30", tags {urgent}.
C3_PlaceholderWhenAllConsumed ==
  (parsed /\ input = "today at 9:30am #urgent")
  => /\ r.title = "New Task"
     /\ r.date = Some(Today)
     /\ r.time = Some("09:30")
     /\ r.tags = <<"urgent">>

(***************************************************************************)
(* C4                                                                      *)
(***************************************************************************)
\* C4: the returned date is the one resolved by the earliest rule, in the
\* order today, tomorrow, next <weekday>, bare weekday, <month> <day>,
\* in <N> <unit>, numeric M/D/Y, that some fragment of the input is an
\* expression of, wherever that fragment stands in the text: it is the date
\* that fragment yields on its own; an input with no date expression has
\* no date.
C4_FirstRuleWins ==
  parsed =>
    IF WinningRule = 0 THEN r.date = Null
    ELSE r.date = parseDate(Chars(WinningFragment), now)

\* a weekday comes first in the text, "today" after it, and today wins
C4_Witness ==
  /\ parsed
  /\ Len(words) = 2 /\ RuleOfFragment(words[1]) = 4 /\ RuleOfFragment(words[2]) = 1
  /\ getDay(now) # WeekdayOfFragment(words[1])
  /\ r.date = Some(Today)

(***************************************************************************)
(* C5                                                                      *)
(***************************************************************************)
\* C5: every date returned by parseTaskInput is at local midnight.
C5_DateAtMidnight ==
  (parsed /\ r.date # Null) => r.date[1].ms = 0

\* "in 2 hours" read at a clock value that is not midnight
C5_Witness ==
  /\ parsed /\ WinningRule = 6 /\ OffsetOfFragment(WinningFragment).unit = "hours"
  /\ now.ms # 0 /\ r.date # Null /\ r.date[1].ms = 0

(***************************************************************************)
(* C6                                                                      *)
(***************************************************************************)
\* C6: when the winning rule is "next <weekday>", the date is the first day
\* strictly after today that falls on that weekday: 1 to 7 days from today,
\* exactly 7 when today is that weekday.
C6_NextWeekdayStrictlyAfter ==
  (parsed /\ WinningRule = 3) =>
    /\ r.date # Null
    /\ r.date[1].ms = 0
    /\ DaysFromToday \in 1..7
    /\ (r.date[1].day + 4) % 7 = WeekdayOfFragment(WinningFragment)
    /\ (now.day + 4) % 7 = WeekdayOfFragment(WinningFragment) => DaysFromToday = 7

\* "next wed" typed on a Wednesday
C6_Witness ==
  /\ parsed /\ WinningRule = 3
  /\ (now.day + 4) % 7 = WeekdayOfFragment(WinningFragment)
  /\ DaysFromToday = 7

(***************************************************************************)
(* C7                                                                      *)
(***************************************************************************)
\* C7: when the winning rule is a bare weekday name or abbreviation, the
\* date is the first day on or after today that falls on that weekday: 0 to
\* 6 days from today, today itself when today is that weekday.
C7_BareWeekdayOnOrAfter ==
  (parsed /\ WinningRule = 4) =>
    /\ r.date # Null
    /\ r.date[1].ms = 0
    /\ DaysFromToday \in 0..6
    /\ (r.date[1].day + 4) % 7 = WeekdayOfFragment(WinningFragment)
    /\ (now.day + 4) % 7 = WeekdayOfFragment(WinningFragment) => r.date = Some(Today)

\* "Wednesday" typed on a Wednesday
C7_Witness ==
  /\ parsed /\ WinningRule = 4
  /\ (now.day + 4) % 7 = WeekdayOfFragment(WinningFragment)
  /\ r.date = Some(Today)

(***************************************************************************)
(* C8                                                                      *)
(***************************************************************************)
YearNow == CivilFromDays(now.day).y

WithoutOffsets == SelectSeq(words, LAMBDA f : RuleOfFragment(f) # 6)

\* C9: when the winning rule is "in <N> <unit>", the date is the local
\* midnight of the day that contains now advanced by N units: N days, 7*N
\* days, N calendar months (when that day of the month exists), or N hours
\* or minutes of clock time, which change the date only by crossing
\* midnight; the returned time is what the input yields without the
\* "in <N> <unit>" fragments.
C9_RelativeOffset ==
  (parsed /\ WinningRule = 6) =>
    LET o == OffsetOfFragment(WinningFragment)
        c == CivilFromDays(now.day)
        months == c.y * 12 + (c.m - 1) + o.n
    IN  /\ r.date # Null
        /\ r.date[1].ms = 0
        /\ o.unit = "days" => DaysFromToday = o.n
        /\ o.unit = "weeks" => DaysFromToday = 7 * o.n
        /\ o.unit = "hours" =>
             DaysFromToday = (now.ms + o.n * 60 * 60 * 1000) \div (24 * 60 * 60 * 1000)
        /\ o.unit = "minutes" =>
             DaysFromToday = (now.ms + o.n * 60 * 1000) \div (24 * 60 * 60 * 1000)
        /\ (o.unit = "months" /\ DayExists(months \div 12, (months % 12) + 1, c.d)) =>
             r.date[1] = Midnight(months \div 12, (months % 12) + 1, c.d)
        /\ r.time = parseTime(Chars(Join(WithoutOffsets)))

\* "in 2 hours" half an hour before midnight: the date is tomorrow's, and
\* no time is returned
C9_Witness ==
  /\ parsed /\ WinningRule = 6
  /\ OffsetOfFragment(WinningFragment) = [n |-> 2, unit |-> "hours"]
  /\ DaysFromToday = 1
  /\ r.time = Null

(***************************************************************************)
(* C10                                                                     *)
(***************************************************************************)
\* C10: an input whose only date expression is the ISO date "2025-01-15"
\* gets the date 15 January 2025.
C10_IsoDateRecognised ==
  (/\ parsed
   /\ \E k \in DOMAIN words : words[k] = "2025-01-15"
   /\ WinningRule = 0)
  => r.date = Some(Midnight(2025, 1, 15))

(***************************************************************************)
(* The caller again, typing clock times, period words, tags and repeated   *)
(* expressions.                                                            *)
(***************************************************************************)
TextFragments ==
  <<"", "call", "9:05", "12:15am", "12:15 PM", "3:15pm", "21:45", "13:00pm",
    "morning", "Afternoon", "evening", "night", "tonight",
    "#Work", "#work", "#follow-up_2", "tag: Urgent, low_prio", "tag: a; b",
    "TAG: x,, y", "today", "in 2 days">>

InitText ==
  /\ words = <<>>
  /\ now = At(2025, 1, 15, 10, 30, 15, 250)
  /\ result = Null
  /\ calls = <<>>
  /\ label = Null
  /\ suggestions = Null /\ hook = Null /\ quickAdd = Null /\ modal = Null

NextText ==
  \/ \E k \in DOMAIN TextFragments : Type(TextFragments[k])
  \/ ParseTaskInput

SpecText == InitText /\ [][NextText]_vars

\* the hour, minutes and suffix a fragment writes as a clock time
ClockOfFragment(f) ==
  CASE f = "9:05" -> [h |-> 9, mm |-> "05", suffix |-> ""]
    [] f = "12:15am" -> [h |-> 12, mm |-> "15", suffix |-> "am"]
    [] f = "12:15 PM" -> [h |-> 12, mm |-> "15", suffix |-> "pm"]
    [] f = "3:15pm" -> [h |-> 3, mm |-> "15", suffix |-> "pm"]
    [] f = "21:45" -> [h |-> 21, mm |-> "45", suffix |-> ""]
    [] f = "13:00pm" -> [h |-> 13, mm |-> "00", suffix |-> "pm"]

ClockFragments == {"9:05", "12:15am", "12:15 PM", "3:15pm", "21:45", "13:00pm"}

\* the time a period word stands for
TimeOfPeriodWord(f) ==
  CASE f = "morning" -> "09:00"
    [] f = "Afternoon" -> "14:00"
    [] f = "evening" -> "18:00"
    [] f = "night" -> "21:00"
    [] f = "tonight" -> "20:00"

PeriodWords == {"morning", "Afternoon", "evening", "night", "tonight"}

TwoDigits(n) == IF n < 10 THEN "0" \o ToString(n) ELSE ToString(n)

\* the positions in the text of the fragments of a set
Positions(S) == {k \in DOMAIN words : words[k] \in S}

(***************************************************************************)
(* C11                                                                     *)
(***************************************************************************)
\* C11: when the input contains an explicit H:MM clock time, the returned
\* time is the first such clock time in two-digit 24-hour form: the hour
\* plus 12 with suffix pm and an hour other than 12, hour 00 with suffix am
\* and hour 12, the hour as written otherwise; the minutes are kept; period
\* words in the same input change nothing.
C11_ExplicitClockTime ==
  (parsed /\ Positions(ClockFragments) # {}) =>
    LET c == ClockOfFragment(words[Min(Positions(ClockFragments))])
        hour == IF c.suffix = "pm" /\ c.h # 12 THEN c.h + 12
                ELSE IF c.suffix = "am" /\ c.h = 12 THEN 0
                ELSE c.h
    IN  r.time = Some(TwoDigits(hour) \o ":" \o c.mm)

\* "12:15am" after a period word: a quarter past midnight
C11_Witness ==
  /\ parsed
  /\ words = <<"morning", "12:15am">>
  /\ r.time = Some("00:15")

(***************************************************************************)
(* C12                                                                     *)
(***************************************************************************)
\* C12: a returned time is two digits, a colon and two digits, with the
\* hour in 00..23 and the minutes in 00..59.
C12_TimeIsValidClock ==
  (parsed /\ r.time # Null) =>
    LET t == Chars(r.time[1])
    IN  /\ Len(t) = 5
        /\ t[3] = ":"
        /\ \A i \in {1, 2, 4, 5} : t[i] \in Digit
        /\ 10 * DigitValue[t[1]] + DigitValue[t[2]] <= 23
        /\ 10 * DigitValue[t[4]] + DigitValue[t[5]] <= 59

(***************************************************************************)
(* C13                                                                     *)
(***************************************************************************)
\* C13: without an explicit clock time and with two or more different
\* period words, the returned time is that of the period word that comes
\* first in the text.
C13_FirstPeriodWordInText ==
  (/\ parsed
   /\ Positions(ClockFragments) = {}
   /\ Cardinality({words[k] : k \in Positions(PeriodWords)}) >= 2)
  => r.time = Some(TimeOfPeriodWord(words[Min(Positions(PeriodWords))]))

(***************************************************************************)
(* C14                                                                     *)
(***************************************************************************)
\* the tag a hashtag fragment names
TagOfHashtag(f) ==
  CASE f \in {"#Work", "#work"} -> "work"
    [] f = "#follow-up_2" -> "follow-up_2"

Hashtags == {"#Work", "#work", "#follow-up_2"}

\* C14: every hashtag of the input contributes its text, without the # and
\* in lower case, to the returned tags, whatever else the input holds; the
\* returned tags hold no duplicate, no empty tag and no upper-case letter.
C14_HashtagsLowercased ==
  parsed =>
    /\ \A k \in Positions(Hashtags) : TagOfHashtag(words[k]) \in Range(r.tags)
    /\ Cardinality(Range(r.tags)) = Len(r.tags)
    /\ \A t \in Range(r.tags) :
         t # "" /\ \A c \in Range(Chars(t)) : c \notin UpperLetter

\* the same hashtag in two spellings: one tag "work"
C14_Witness ==
  /\ parsed
  /\ words = <<"#Work", "#work">>
  /\ r.tags = <<"work">>

(***************************************************************************)
(* C15                                                                     *)
(***************************************************************************)
\* the items a tag: list fragment names, trimmed and in lower case
ItemsOfTagList(f) ==
  CASE f = "tag: Urgent, low_prio" -> {"urgent", "low_prio"}
    [] f = "tag: a; b" -> {"a", "b"}
    [] f = "TAG: x,, y" -> {"x", "y"}

CommaLists == {"tag: Urgent, low_prio", "TAG: x,, y"}
TagLists == CommaLists \cup {"tag: a; b"}

\* C15: when the input ends with its only tag: list, separated by commas or
\* by semicolons, every item of the list is in the returned tags.
C15_TagListItems ==
  (/\ parsed
   /\ Cardinality(Positions(TagLists)) = 1
   /\ Len(words) \in Positions(TagLists))
  => ItemsOfTagList(words[Len(words)]) \subseteq Range(r.tags)

(***************************************************************************)
(* C16                                                                     *)
(***************************************************************************)
\* C16: when the input is made of several comma-separated tag: lists, the
\* items of each list are in the returned tags, and no returned tag is
\* or ends with the word "tag".
C16_EveryTagListContributes ==
  (/\ parsed
   /\ Len(words) >= 2
   /\ \A k \in DOMAIN words : words[k] \in CommaLists)
  => /\ \A k \in DOMAIN words : ItemsOfTagList(words[k]) \subseteq Range(r.tags)
     /\ \A t \in Range(r.tags) :
          LET cs == Chars(t)
          IN  ~(Len(cs) >= 3 /\ SubSeq(cs, Len(cs) - 2, Len(cs)) = Chars("tag"))

(***************************************************************************)
(* C17                                                                     *)
(***************************************************************************)
\* C17: no part of the title matches the hashtag pattern, the tag: pattern,
\* a date pattern or a time pattern.
C17_TitleHoldsNoPattern ==
  parsed =>
    LET title == Chars(r.title)
    IN  /\ \A k \in DOMAIN TAG_PATTERNS : ~Test(TAG_PATTERNS[k], title)
        /\ \A k \in DOMAIN DATE_PATTERNS : ~Test(DATE_PATTERNS[k], title)
        /\ \A k \in DOMAIN TIME_PATTERNS : ~Test(TIME_PATTERNS[k], title)

(***************************************************************************)
(* C18                                                                     *)
(***************************************************************************)
\* C18: cleaning the returned title again returns it unchanged.
C18_CleanupIdempotent ==
  parsed => cleanInput(Chars(r.title)) = r.title

(***************************************************************************)
(* A caller showing a date: formatDateForDisplay is called with a date of  *)
(* some day around today, at some time of that day.                        *)
(***************************************************************************)
DisplayDates ==
  {[day |-> now.day + o, ms |-> t] :
     o \in {-2, -1, 0, 1, 2, 3, 7, 30},
     t \in {0, 1, 12 * MsPerHour, now.ms, MsPerDay - 1}}

\* nothing typed, nothing called yet
InitIdle ==
  /\ words = <<>>
  /\ now \in Clocks
  /\ result = Null
  /\ calls = <<>>
  /\ label = Null
  /\ suggestions = Null /\ hook = Null /\ quickAdd = Null /\ modal = Null

\* formatDateForDisplay(date)
FormatDateForDisplay(date) ==
  /\ label = Null
  /\ label' = Some([date |-> date, text |-> formatDateForDisplay(date, now)])
  /\ UNCHANGED <<words, now, result, calls, suggestions, hook, quickAdd, modal>>

NextDisplay == \E date \in DisplayDates : FormatDateForDisplay(date)

SpecDisplay == InitIdle /\ [][NextDisplay]_vars

(***************************************************************************)
(* C19                                                                     *)
(***************************************************************************)
shown == label # Null

\* C19: the text for a date is "Today" exactly when the date's day is
\* today, "Tomorrow" exactly when it is the day after today, whatever the
\* time of day of the date; for any other day it is a text that is not
\* empty, is neither of the two, and starts with the short name of the
\* date's weekday.
C19_TodayTomorrowOrLabel ==
  shown =>
    LET d == label[1].date
        text == label[1].text
        weekday == <<"Thu", "Fri", "Sat", "Sun", "Mon", "Tue", "Wed">>[(d.day % 7) + 1]
    IN  /\ text = "Today" <=> d.day = now.day
        /\ text = "Tomorrow" <=> d.day = now.day + 1
        /\ Len(text) > 0
        /\ d.day \notin {now.day, now.day + 1} => SubSeq(text, 1, 4) = weekday \o ","

\* the last millisecond of the day after today, shown in the last half
\* hour of a year, is "Tomorrow"
C19_Witness ==
  /\ shown
  /\ now = At(2024, 12, 31, 23, 30, 0, 0)
  /\ label[1].date = At(2025, 1, 1, 23, 59, 59, 999)
  /\ label[1].text = "Tomorrow"

(***************************************************************************)
(* Callers calling parseTaskInput again and again, as runTests does for    *)
(* each test case: between calls the text is replaced and the clock moves  *)
(* on.                                                                     *)
(***************************************************************************)
MaxCalls == 3

CallTexts == {<<"call">>, <<"today", "#Work">>, <<"dec 25", "9:05">>}

Retype(ws) ==
  /\ ws # words
  /\ words' = ws
  /\ UNCHANGED <<now, result, calls, label, suggestions, hook, quickAdd, modal>>

Tick(clock) ==
  /\ DateLess(now, clock)
  /\ now' = clock
  /\ UNCHANGED <<words, result, calls, label, suggestions, hook, quickAdd, modal>>

\* a call that remembers the date of the call before when the input names
\* none
Call_RemembersDate ==
  LET fresh == parseTaskInput(input, now)
      returned == IF fresh.date = Null /\ result # Null
                  THEN [fresh EXCEPT !.date = result[1].date]
                  ELSE fresh
  IN  /\ Len(calls) < MaxCalls
      /\ result' = Some(returned)
      /\ calls' = Append(calls, [input |-> input, now |-> now, result |-> returned])
      /\ UNCHANGED <<words, now, label, suggestions, hook, quickAdd, modal>>

\* const result = parseTaskInput(testCase.input)
Call ==
  /\ Len(calls) < MaxCalls
  /\ result' = Some(parseTaskInput(input, now))
  /\ calls' = Append(calls, [input |-> input, now |-> now, result |-> result'[1]])
  /\ UNCHANGED <<words, now, label, suggestions, hook, quickAdd, modal>>

NextCalls ==
  \/ \E ws \in CallTexts : Retype(ws)
  \/ \E clock \in Clocks : Tick(clock)
  \/ Call

SpecCalls == InitIdle /\ [][NextCalls]_vars

C23_MonthDayTodayIsToday ==
  (/\ parsed
   /\ WinningRule = 5
   /\ Midnight(YearNow, MonthDayOfFragment(WinningFragment).m,
               MonthDayOfFragment(WinningFragment).d) = Today)
  => r.date = Some(Today)

(***************************************************************************)
(* C28                                                                     *)
(***************************************************************************)
\* C28: when no date, no time and no tag is returned, the title is the
\* input with its white space collapsed and trimmed, or "New Task" when
\* that is empty.
C28_TitleKeepsUnrecognisedText ==
  (parsed /\ r.date = Null /\ r.time = Null /\ r.tags = <<>>) =>
    LET kept == Join(SelectSeq(words, LAMBDA f : f # ""))
    IN  r.title = IF kept = "" THEN "New Task" ELSE kept

(***************************************************************************)
(* A caller asking for date suggestions while a word is being typed.       *)
(***************************************************************************)
SuggestInputs ==
  UNION {{SubSeq(w, 1, n) : n \in 0..Len(w)} :
           w \in {"today", "tomorrow", "next week", "Next.week"}}
    \cup {" ", " to ", "TOM", "day", "tk", "xk", "week", "nextweek", "next  week",
          "call", "tomorow", "todays"}

\* getDateSuggestions(input)
GetDateSuggestions(str) ==
  /\ suggestions = Null
  /\ suggestions' = Some([input |-> str, list |-> getDateSuggestions(str, now)])
  /\ UNCHANGED <<words, now, result, calls, label, hook, quickAdd, modal>>

NextSuggest == \E str \in SuggestInputs : GetDateSuggestions(str)

SpecSuggest == InitIdle /\ [][NextSuggest]_vars

(***************************************************************************)
(* C21                                                                     *)
(***************************************************************************)
\* the trimmed input is the beginning of "next week", written with a
\* space, a full stop, both or neither
IsPartOfNextWeek(str) ==
  \E w \in {"next week", "next.week", "next. week", "nextweek"} :
    StartsWith(Chars(w), Text(toLowerCase(Trim(Chars(str)))))

\* C21: for a non-empty input exactly one suggestion is dated today and
\* exactly one tomorrow; no two suggestions have the same date; "Next Week"
\* (today + 7 days) is proposed only when the trimmed input is the beginning
\* of "next week".
C21_DateSuggestions ==
  suggestions # Null =>
    LET str == suggestions[1].input
        list == suggestions[1].list
        dated(n) == {k \in DOMAIN list : list[k].date = [day |-> now.day + n, ms |-> 0]}
    IN  /\ Len(str) > 0 => (Cardinality(dated(0)) = 1 /\ Cardinality(dated(1)) = 1)
        /\ \A j, k \in DOMAIN list : j # k => list[j].date # list[k].date
        /\ \A k \in DOMAIN list :
             list[k].text = "Next Week" =>
               (list[k].date = [day |-> now.day + 7, ms |-> 0] /\ IsPartOfNextWeek(str))

(***************************************************************************)
(* useTasks: the tasks and lists of the hook, kept in localStorage.        *)
(* A task is read as its id, completed and listId, a list as its id and    *)
(* name; undefined is Null.  hook.tasks, hook.lists and hook.loaded are    *)
(* the state cells, hook.render the values the last render saw (the ones   *)
(* its effects close over), hook.set the cells set since that render,      *)
(* hook.effects the effects of that render still to run, hook.setItem the  *)
(* keys the last step wrote, hook.before the storage found at mount, and   *)
(* hook.called whether a function of the hook has been called yet.         *)
(***************************************************************************)
MaxTasks == 1
MaxLists == 1
MaxBatch == 2

STORAGE_KEY == "notodo:tasks"
LISTS_STORAGE_KEY == "notodo:lists"

\* the properties of Task and TaskList read here; listId?: string is optional
TaskShape == {"id", "completed", "listId"}
ListShape == {"id", "name"}
Optional == {"listId"}

TaskIds == {"task-" \o ToString(n) : n \in 0..MaxTasks}
ListIds == {"list-" \o ToString(n) : n \in 0..MaxLists}

\* JSON.stringify of an array of objects: a property whose value is
\* undefined is left out of the text
JSONstringify(items) ==
  [ok |-> TRUE,
   items |-> [k \in DOMAIN items |->
                [f \in {g \in DOMAIN items[k] :
                          g \notin Optional \/ items[k][g] # Null} |->
                   IF f \in Optional THEN items[k][f][1] ELSE items[k][f]]]]

\* JSON.parse of a text that is JSON, its objects read with the properties
\* of shape: a property the text leaves out reads as undefined
JSONparse(text, shape) ==
  [k \in DOMAIN text.items |->
     [f \in shape |->
        IF f \in Optional
        THEN IF f \in DOMAIN text.items[k] THEN Some(text.items[k][f]) ELSE Null
        ELSE text.items[k][f]]]

\* a stored text on which JSON.parse throws
Malformed == [ok |-> FALSE, items |-> <<>>]

\* a state setter: the value is held until the next render; an array is a
\* new reference, so the effects that depend on the cell run again
SetState(h, cell, value) == [h EXCEPT ![cell] = value, !.set = @ \cup {cell}]

\* { ...task, ...updates }
Spread(object, updates) ==
  [f \in DOMAIN object |-> IF f \in DOMAIN updates THEN updates[f] ELSE object[f]]

addTask(h) ==
  SetState([h EXCEPT !.nextTask = @ + 1], "tasks",
           <<[id |-> "task-" \o ToString(h.nextTask),
              completed |-> FALSE, listId |-> Null]>> \o h.tasks)

updateTask(h, id, updates) ==
  SetState(h, "tasks",
           [k \in DOMAIN h.tasks |->
              IF h.tasks[k].id = id THEN Spread(h.tasks[k], updates)
              ELSE h.tasks[k]])

deleteTask(h, id) ==
  SetState(h, "tasks", SelectSeq(h.tasks, LAMBDA task : task.id # id))

toggleTask(h, id) ==
  SetState(h, "tasks",
           [k \in DOMAIN h.tasks |->
              IF h.tasks[k].id = id
              THEN [h.tasks[k] EXCEPT !.completed = ~@]
              ELSE h.tasks[k]])

\* listId || undefined
moveTaskToList(h, taskId, listId) ==
  updateTask(h, taskId,
             [listId |-> IF listId = Null \/ listId = Some("") THEN Null ELSE listId])

createList(h, name) ==
  SetState([h EXCEPT !.nextList = @ + 1], "lists",
           <<[id |-> "list-" \o ToString(h.nextList), name |-> name]>> \o h.lists)

updateList(h, id, updates) ==
  SetState(h, "lists",
           [k \in DOMAIN h.lists |->
              IF h.lists[k].id = id THEN Spread(h.lists[k], updates)
              ELSE h.lists[k]])

deleteList_KeepsTasks(h, id) ==
  SetState(SetState(h, "lists", SelectSeq(h.lists, LAMBDA list : list.id # id)),
           "tasks", h.tasks)

deleteList(h, id) ==
  SetState(SetState(h, "lists", SelectSeq(h.lists, LAMBDA list : list.id # id)),
           "tasks",
           [k \in DOMAIN h.tasks |->
              IF h.tasks[k].listId = Some(id)
              THEN [h.tasks[k] EXCEPT !.listId = Null]
              ELSE h.tasks[k]])

\* the load effect of the mount: one try block around both reads, so a
\* JSON.parse that throws skips what follows it; setLoaded(true) comes after
LoadEffect ==
  /\ hook.effects # <<>> /\ Head(hook.effects) = "load"
  /\ LET stored == hook.storage[STORAGE_KEY]
         storedLists == hook.storage[LISTS_STORAGE_KEY]
         h0 == [hook EXCEPT !.effects = Tail(@), !.setItem = {}]
         h1 == IF stored # Null
               THEN SetState(h0, "tasks", JSONparse(stored[1], TaskShape))
               ELSE h0
         h2 == IF storedLists # Null
               THEN SetState(h1, "lists", JSONparse(storedLists[1], ListShape))
               ELSE h1
         tried == IF stored # Null /\ ~stored[1].ok THEN h0
                  ELSE IF storedLists # Null /\ ~storedLists[1].ok THEN h1
                  ELSE h2
     IN  hook' = SetState(tried, "loaded", TRUE)
  /\ UNCHANGED <<words, now, result, calls, label, suggestions, quickAdd, modal>>

SaveEffect_Unguarded(key) ==
  /\ hook.effects # <<>> /\ Head(hook.effects) = key
  /\ hook' = [hook EXCEPT !.effects = Tail(@),
                          !.storage[key] = Some(JSONstringify(hook.render[
                             IF key = STORAGE_KEY THEN "tasks" ELSE "lists"])),
                          !.setItem = {key}]
  /\ UNCHANGED <<words, now, result, calls, label, suggestions, quickAdd, modal>>

\* the save effect of a key, with the tasks or lists and the loaded of the
\* render that scheduled it
SaveEffect(key) ==
  /\ hook.effects # <<>> /\ Head(hook.effects) = key
  /\ hook' = IF hook.render.loaded
             THEN [hook EXCEPT !.effects = Tail(@),
                               !.storage[key] = Some(JSONstringify(hook.render[
                                  IF key = STORAGE_KEY THEN "tasks" ELSE "lists"])),
                               !.setItem = {key}]
             ELSE [hook EXCEPT !.effects = Tail(@), !.setItem = {}]
  /\ UNCHANGED <<words, now, result, calls, label, suggestions, quickAdd, modal>>

Render_SavesOnLoadedOnly ==
  /\ hook.effects = <<>> /\ hook.set # {}
  /\ hook' = [hook EXCEPT
       !.render = [tasks |-> hook.tasks, lists |-> hook.lists, loaded |-> hook.loaded],
       !.set = {}, !.batch = 0, !.setItem = {},
       !.effects = IF hook.loaded # hook.render.loaded
                   THEN <<STORAGE_KEY, LISTS_STORAGE_KEY>> ELSE <<>>]
  /\ UNCHANGED <<words, now, result, calls, label, suggestions, quickAdd, modal>>

\* a render after state was set: it sees the cells' values and schedules the
\* save effects whose dependencies [tasks, loaded] and [lists, loaded] changed
Render ==
  /\ hook.effects = <<>> /\ hook.set # {}
  /\ LET changed(cell) == cell \in hook.set \/ hook.loaded # hook.render.loaded
     IN  hook' = [hook EXCEPT
           !.render = [tasks |-> hook.tasks, lists |-> hook.lists,
                       loaded |-> hook.loaded],
           !.set = {}, !.batch = 0, !.setItem = {},
           !.effects = (IF changed("tasks") THEN <<STORAGE_KEY>> ELSE <<>>)
                       \o (IF changed("lists") THEN <<LISTS_STORAGE_KEY>> ELSE <<>>)]
  /\ UNCHANGED <<words, now, result, calls, label, suggestions, quickAdd, modal>>

\* a function of the hook called from an event handler: the effects of the
\* last render have run, and what it sets is held until the next render
Called(h) ==
  /\ hook.effects = <<>> /\ hook.batch < MaxBatch
  /\ hook' = [h EXCEPT !.batch = @ + 1, !.setItem = {}, !.called = TRUE]
  /\ UNCHANGED <<words, now, result, calls, label, suggestions, quickAdd, modal>>

\* the calls the pages make, with updates drawn from updates, target lists
\* from targets and lists to delete from lists
Handlers(updates, targets, lists) ==
  \/ hook.nextTask <= MaxTasks /\ Called(addTask(hook))
  \/ \E id \in TaskIds, u \in updates : Called(updateTask(hook, id, u))
  \/ \E id \in TaskIds : Called(deleteTask(hook, id))
  \/ \E id \in TaskIds : Called(toggleTask(hook, id))
  \/ \E id \in TaskIds, l \in targets : Called(moveTaskToList(hook, id, l))
  \/ hook.nextList <= MaxLists /\ Called(createList(hook, "a"))
  \/ \E id \in ListIds : Called(updateList(hook, id, [name |-> "b"]))
  \/ \E id \in lists : Called(deleteList(hook, id))

Effects == LoadEffect \/ \E key \in {STORAGE_KEY, LISTS_STORAGE_KEY} : SaveEffect(key)

\* what localStorage holds at mount: nothing, what the hook wrote before, or
\* a text under one of the keys that is not JSON
StoredTask == [id |-> "task-0", completed |-> FALSE, listId |-> Some("list-0")]
StoredList == [id |-> "list-0", name |-> "a"]
Stored(tasks, lists) ==
  (STORAGE_KEY :> tasks) @@ (LISTS_STORAGE_KEY :> lists)
WrittenBefore ==
  {Stored(Null, Null),
   Stored(Some(JSONstringify(<<>>)), Some(JSONstringify(<<>>))),
   Stored(Some(JSONstringify(<<StoredTask>>)), Some(JSONstringify(<<StoredList>>))),
   Stored(Some(JSONstringify(<<[StoredTask EXCEPT !.listId = Null]>>)),
          Some(JSONstringify(<<StoredList>>)))}
Corrupted ==
  {Stored(Some(Malformed), Some(JSONstringify(<<StoredList>>))),
   Stored(Some(JSONstringify(<<StoredTask>>)), Some(Malformed))}

\* the hook after the first render: the initial state, all three effects to run
Mounted(storage) ==
  /\ hook = [tasks |-> <<>>, lists |-> <<>>, loaded |-> FALSE,
             render |-> [tasks |-> <<>>, lists |-> <<>>, loaded |-> FALSE],
             set |-> {}, effects |-> <<"load", STORAGE_KEY, LISTS_STORAGE_KEY>>,
             storage |-> storage, before |-> storage, setItem |-> {},
             batch |-> 0, called |-> FALSE, nextTask |-> 1, nextList |-> 1]
  /\ words = <<>> /\ now = At(2025, 1, 15, 10, 30, 15, 250)
  /\ result = Null /\ calls = <<>> /\ label = Null
  /\ suggestions = Null /\ quickAdd = Null /\ modal = Null

InitHook == \E storage \in WrittenBefore \cup Corrupted : Mounted(storage)

Updates ==
  {[completed |-> TRUE]} \cup {[listId |-> Some(id)] : id \in ListIds}

NextHook ==
  \/ Handlers(Updates, {Null} \cup {Some(id) : id \in ListIds}, ListIds)
  \/ Render
  \/ Effects

\* React renders after a state is set and runs the effects of a render
SpecHook == InitHook /\ [][NextHook]_vars /\ WF_vars(Render) /\ WF_vars(Effects)

\* the calls that name only lists there are when they are made, on storage
\* the hook wrote
ListIdsOf(h) == {h.lists[k].id : k \in DOMAIN h.lists}

InitListOps == \E storage \in WrittenBefore : Mounted(storage)

NextListOps ==
  \/ Handlers({[completed |-> TRUE]},
              {Null} \cup {Some(id) : id \in ListIdsOf(hook)}, ListIdsOf(hook))
  \/ Render
  \/ Effects

SpecListOps == InitListOps /\ [][NextListOps]_vars

(***************************************************************************)
(* C22                                                                     *)
(***************************************************************************)
Saved == hook.storage[STORAGE_KEY] = Some(JSONstringify(hook.tasks))

\* no state is held for a render and no effect of the last render is left
Settled == hook.set = {} /\ hook.effects = <<>>

AfterDeleteList(id) ==
  /\ id \notin ListIdsOf(hook')
  /\ Len(hook'.tasks) = Len(hook.tasks)
  /\ \A k \in DOMAIN hook.tasks :
       /\ hook'.tasks[k].id = hook.tasks[k].id
       /\ hook'.tasks[k].completed = hook.tasks[k].completed
       /\ hook'.tasks[k].listId =
            IF hook.tasks[k].listId = Some(id) THEN Null ELSE hook.tasks[k].listId

\* C24: deleteList(id) removes the list, returns its tasks to the inbox and
\* leaves the other tasks alone; and when the calls name only lists there
\* are, every task's listId is undefined or the id of a list there is.
C24_DeleteListReturnsTasksToInbox ==
  /\ [][\A id \in ListIds : Called(deleteList(hook, id)) => AfterDeleteList(id)]_vars
  /\ [](\A k \in DOMAIN hook.tasks :
          hook.tasks[k].listId = Null \/ hook.tasks[k].listId[1] \in ListIdsOf(hook))

\* deleteList alone was called since the last render, on the list of a task
C24_Witness ==
  /\ hook.batch = 1 /\ hook.set = {"lists", "tasks"}
  /\ "list-0" \in ListIdsOf(hook.render) /\ "list-0" \notin ListIdsOf(hook)
  /\ \E k \in DOMAIN hook.tasks :
       /\ hook.render.tasks[k].listId = Some("list-0")
       /\ hook.tasks[k].listId = Null
  /\ \E k \in DOMAIN hook.tasks : hook.tasks[k].listId = Some("list-1")

C27_MalformedTasksKeepStoredLists ==
  (/\ hook.before[STORAGE_KEY] = Some(Malformed)
   /\ hook.before[LISTS_STORAGE_KEY] # Null
   /\ hook.before[LISTS_STORAGE_KEY] # Some(Malformed)
   /\ hook.loaded /\ ~hook.called) =>
    /\ hook.lists = JSONparse(hook.before[LISTS_STORAGE_KEY][1], ListShape)
    /\ hook.storage[LISTS_STORAGE_KEY] = hook.before[LISTS_STORAGE_KEY]

(***************************************************************************)
(* getTimeSuggestions, getCommonTags                                       *)
(***************************************************************************)
getTimeSuggestions ==
  <<[text |-> "Morning", time |-> "09:00"], [text |-> "Afternoon", time |-> "14:00"],
    [text |-> "Evening", time |-> "18:00"], [text |-> "Night", time |-> "21:00"]>>

getCommonTags ==
  <<"work", "personal", "shopping", "health", "learning", "bug", "feature", "urgent">>

(***************************************************************************)
(* QuickAddInput: the state cells of the component, quickAdd.effect for     *)
(* the parse effect of a render whose input changed and has not run yet,   *)
(* quickAdd.emitted for the task the last step handed to onTaskAdd.        *)
(***************************************************************************)
\* how many of the common tags the model clicks
MaxTagPicks == 2

QuickAddInputs == {"", " ", "pay rent", "call mom tomorrow at 9am #home"}

Blank(str) == Trim(Chars(str)) = <<>>

setInput(q, value) == [q EXCEPT !.input = value]

handleDateSectionClick_LeavesOthers(q) ==
  [q EXCEPT !.showDateSuggestions = ~@]

handleDateSectionClick(q) ==
  [q EXCEPT !.showDateSuggestions = ~@,
            !.showTimeSuggestions = FALSE,
            !.showTagSuggestions = FALSE]

\* onClick of the time section
TimeSectionClick(q) ==
  [q EXCEPT !.showTimeSuggestions = ~@,
            !.showDateSuggestions = FALSE,
            !.showTagSuggestions = FALSE]

\* onClick of the tags section
TagSectionClick(q) ==
  [q EXCEPT !.showTagSuggestions = ~@,
            !.showDateSuggestions = FALSE,
            !.showTimeSuggestions = FALSE]

handleDateSelect(q, date) ==
  [q EXCEPT !.selectedDate = Some(date), !.showDateSuggestions = FALSE]

handleTimeSelect(q, time) ==
  [q EXCEPT !.selectedTime = Some(time), !.showTimeSuggestions = FALSE]

handleTagSelect(q, tag) ==
  [q EXCEPT !.selectedTags = IF tag \in Range(@) THEN @ ELSE Append(@, tag),
            !.showTagSuggestions = FALSE]

handleTagRemove(q, tag) ==
  [q EXCEPT !.selectedTags = SelectSeq(@, LAMBDA t : t # tag)]

handleSubmit_ParsedValues(q) ==
  IF Blank(q.input) \/ q.parsed = Null THEN q
  ELSE [q EXCEPT !.emitted = Some([title |-> q.parsed[1].title,
                                   date |-> q.parsed[1].date,
                                   time |-> q.parsed[1].time,
                                   tags |-> q.parsed[1].tags,
                                   rawInput |-> q.input]),
                 !.input = "", !.parsed = Null, !.selectedDate = Null,
                 !.selectedTime = Null, !.selectedTags = <<>>]

handleSubmit(q) ==
  IF Blank(q.input) \/ q.parsed = Null THEN q
  ELSE [q EXCEPT !.emitted = Some([title |-> q.parsed[1].title,
                                   date |-> q.selectedDate,
                                   time |-> q.selectedTime,
                                   tags |-> q.selectedTags,
                                   rawInput |-> q.input]),
                 !.input = "", !.parsed = Null, !.selectedDate = Null,
                 !.selectedTime = Null, !.selectedTags = <<>>]

handleClickOutside(q) ==
  [q EXCEPT !.showDateSuggestions = FALSE,
            !.showTimeSuggestions = FALSE,
            !.showTagSuggestions = FALSE]

\* the effect on [input]: parse, and take the selections from the parse
ParseEffect ==
  /\ quickAdd.effect
  /\ IF ~Blank(quickAdd.input)
     THEN \E p \in {parseTaskInput(quickAdd.input, now)} :
            quickAdd' = [quickAdd EXCEPT !.parsed = Some(p), !.selectedDate = p.date,
                                         !.selectedTime = p.time, !.selectedTags = p.tags,
                                         !.effect = FALSE, !.emitted = Null]
     ELSE quickAdd' = [quickAdd EXCEPT !.parsed = Null, !.selectedDate = Null,
                                       !.selectedTime = Null, !.selectedTags = <<>>,
                                       !.effect = FALSE, !.emitted = Null]
  /\ UNCHANGED <<words, now, result, calls, label, suggestions, hook, modal>>

\* an event handler has run and left the component as q: the effects of the
\* render before have run, and the parse effect runs again if input changed
Handled(q) ==
  /\ ~quickAdd.effect
  /\ quickAdd' = [q EXCEPT !.effect = (q.input # quickAdd.input)]
  /\ UNCHANGED <<words, now, result, calls, label, suggestions, hook, modal>>

\* the component as an event finds it
Quiet == [quickAdd EXCEPT !.emitted = Null]

\* the preview with the three sections is rendered
Preview == quickAdd.parsed # Null /\ ~Blank(quickAdd.input)

InitQuickAdd ==
  /\ quickAdd = [input |-> "", parsed |-> Null,
                 showDateSuggestions |-> FALSE, showTimeSuggestions |-> FALSE,
                 showTagSuggestions |-> FALSE,
                 selectedDate |-> Null, selectedTime |-> Null, selectedTags |-> <<>>,
                 effect |-> TRUE, emitted |-> Null]
  /\ words = <<>> /\ now = At(2025, 1, 15, 10, 30, 15, 250)
  /\ result = Null /\ calls = <<>> /\ label = Null
  /\ suggestions = Null /\ hook = Null /\ modal = Null

NextQuickAdd ==
  \/ \E value \in QuickAddInputs :
       value # quickAdd.input /\ Handled(setInput(Quiet, value))
  \/ quickAdd.input # "" /\ Handled(setInput(Quiet, ""))
  \/ Preview /\ Handled(handleDateSectionClick(Quiet))
  \/ Preview /\ quickAdd.selectedDate # Null /\ Handled(TimeSectionClick(Quiet))
  \/ Preview /\ Handled(TagSectionClick(Quiet))
  \/ /\ Preview /\ quickAdd.showDateSuggestions
     /\ \E s \in Range(getDateSuggestions(quickAdd.input, now)) :
          Handled(handleDateSelect(Quiet, s.date))
  \/ /\ Preview /\ quickAdd.selectedDate # Null /\ quickAdd.showTimeSuggestions
     /\ \E s \in Range(getTimeSuggestions) : Handled(handleTimeSelect(Quiet, s.time))
  \/ /\ Preview /\ quickAdd.showTagSuggestions
     /\ \E k \in 1..MaxTagPicks :
          /\ getCommonTags[k] \notin Range(quickAdd.selectedTags)
          /\ Handled(handleTagSelect(Quiet, getCommonTags[k]))
  \/ /\ Preview
     /\ \E tag \in Range(quickAdd.selectedTags) : Handled(handleTagRemove(Quiet, tag))
  \/ Handled(handleSubmit(Quiet))
  \/ Handled(handleClickOutside(Quiet))
  \/ ParseEffect

SpecQuickAdd == InitQuickAdd /\ [][NextQuickAdd]_vars

(***************************************************************************)
(* C25                                                                     *)
(***************************************************************************)
Selections(q) ==
  [date |-> q.selectedDate, time |-> q.selectedTime, tags |-> q.selectedTags]

NoSelections == [date |-> Null, time |-> Null, tags |-> <<>>]

\* what a parse of the text gives the pickers
FreshSelections(str) ==
  IF Blank(str) THEN NoSelections
  ELSE LET p == parseTaskInput(str, now)
       IN  [date |-> p.date, time |-> p.time, tags |-> p.tags]

\* one picker changed, to a value it offers or by a tag taken away
IsPick(before, after) ==
  \/ /\ after = [before EXCEPT !.date = after.date]
     /\ \E s \in Range(getDateSuggestions(quickAdd.input, now)) : after.date = Some(s.date)
  \/ /\ after = [before EXCEPT !.time = after.time]
     /\ \E s \in Range(getTimeSuggestions) : after.time = Some(s.time)
  \/ \E tag \in Range(getCommonTags) :
       tag \notin Range(before.tags) /\ after = [before EXCEPT !.tags = Append(@, tag)]
  \/ \E tag \in Range(before.tags) :
       after = [before EXCEPT !.tags = SelectSeq(@, LAMBDA t : t # tag)]

\* C25: a task is emitted only from a non-blank input, with the parsed title
\* of that input, the input as rawInput and the selections as date, time and
\* tags, and leaves input, parsed and selections empty; an edit of the input
\* is followed at once by the parse effect, which sets the selections to the
\* fresh parse; between edits the selections change only by a pick.
C25_SubmitEmitsSelections ==
  [][/\ quickAdd'.emitted # Null =>
          /\ ~Blank(quickAdd.input)
          /\ quickAdd'.emitted[1] =
               [title |-> parseTaskInput(quickAdd.input, now).title,
                date |-> quickAdd.selectedDate, time |-> quickAdd.selectedTime,
                tags |-> quickAdd.selectedTags, rawInput |-> quickAdd.input]
          /\ quickAdd'.input = "" /\ quickAdd'.parsed = Null
          /\ Selections(quickAdd') = NoSelections
     /\ quickAdd'.input # quickAdd.input => quickAdd'.effect
     /\ quickAdd.effect =>
          /\ ~quickAdd'.effect /\ quickAdd'.input = quickAdd.input
          /\ Selections(quickAdd') = FreshSelections(quickAdd.input)
          /\ quickAdd'.parsed = IF Blank(quickAdd.input) THEN Null
                                ELSE Some(parseTaskInput(quickAdd.input, now))
     /\ (~quickAdd.effect /\ quickAdd'.emitted = Null
           /\ Selections(quickAdd') # Selections(quickAdd)) =>
          IsPick(Selections(quickAdd), Selections(quickAdd'))
    ]_vars

\* a task emitted with a date, a time and tags that were picked, not parsed
C25_Witness ==
  /\ quickAdd.emitted # Null
  /\ LET task == quickAdd.emitted[1]
         p == parseTaskInput(task.rawInput, now)
     IN  /\ task.rawInput = "call mom tomorrow at 9am #home"
         /\ task.date # Null /\ task.date # p.date
         /\ task.time = Some("21:00")
         /\ task.tags = <<"work">>

(***************************************************************************)
(* C29                                                                     *)
(***************************************************************************)
\* C29: at most one of the date, time and tag suggestion panels is open, and
\* no tag is selected twice.
C29_OnePanelNoDuplicateTag ==
  /\ Cardinality({p \in {"showDateSuggestions", "showTimeSuggestions",
                         "showTagSuggestions"} : quickAdd[p]}) <= 1
  /\ \A j, k \in DOMAIN quickAdd.selectedTags :
       j # k => quickAdd.selectedTags[j] # quickAdd.selectedTags[k]

\* the date panel open after the tag panel was, with a parsed and a picked tag
C29_Witness ==
  /\ quickAdd.showDateSuggestions
  /\ quickAdd.selectedTags = <<"home", "work">>
  /\ quickAdd.selectedTime # Null

(***************************************************************************)
(* TaskDetailModal: the due date of the task, the text of the date field,  *)
(* and the date handed to onSave.  A Date is held as the local clock reads *)
(* it; modal.offset is the minutes the local clock is ahead of UTC.        *)
(***************************************************************************)
TimezoneOffsets == {-480, -300, 0, 60, 330, 540}

\* a Date as UTC reads it, and the Date that UTC reads as utc
ToUTC(date, offset) == MakeDate(date.day, date.ms - offset * MsPerMinute)
FromUTC(utc, offset) == MakeDate(utc.day, utc.ms + offset * MsPerMinute)

\* Date.prototype.toISOString: YYYY-MM-DDTHH:mm:ss.sssZ, in UTC
toISOString(date, offset) ==
  LET utc == ToUTC(date, offset)
      civil == CivilFromDays(utc.day)
      millis == utc.ms % 1000
  IN  ToString(civil.y) \o "-" \o padStart2(civil.m) \o "-" \o padStart2(civil.d)
        \o "T" \o padStart2(getHours(utc)) \o ":" \o padStart2(getMinutes(utc))
        \o ":" \o padStart2((utc.ms \div 1000) % 60)
        \o "." \o (IF millis < 10 THEN "00" ELSE IF millis < 100 THEN "0" ELSE "")
        \o ToString(millis) \o "Z"

\* new Date('YYYY-MM-DD'): a date-only text is midnight of that day in UTC
NewDateISO(str, offset) ==
  LET parts == Split(Chars(str), {"-"})
  IN  FromUTC(MakeDate(DaysFromCivil(parseInt(parts[1]), parseInt(parts[2]),
                                     parseInt(parts[3])), 0),
              offset)

\* task.date: no date, or the local midnight of a day
TaskDates ==
  {Null} \cup {Some(NewDateYMD(ymd[1], ymd[2] - 1, ymd[3])) :
                 ymd \in {<<2024, 2, 29>>, <<2024, 12, 31>>, <<2025, 1, 1>>,
                          <<2025, 1, 15>>, <<2025, 3, 1>>, <<2025, 6, 30>>}}

\* what the user may put in the date field
DueDateInputs == {"", "2025-06-01"}

\* the modal mounts for a task: useState(task.date ? ... : '')
OpenModal(date, offset) ==
  /\ ~modal.isOpen
  /\ modal' = [isOpen |-> TRUE, date |-> date, offset |-> offset,
               dueDate |-> IF date # Null
                           THEN Text(Split(Chars(toISOString(date[1], offset)), {"T"})[1])
                           ELSE "",
               touched |-> FALSE, saved |-> Null]
  /\ UNCHANGED <<words, now, result, calls, label, suggestions, hook, quickAdd>>

\* onChange of the date field
SetDueDate(value) ==
  /\ modal.isOpen /\ value # modal.dueDate
  /\ modal' = [modal EXCEPT !.dueDate = value, !.touched = TRUE]
  /\ UNCHANGED <<words, now, result, calls, label, suggestions, hook, quickAdd>>

\* handleSave: onSave({..., date: dueDate ? new Date(dueDate) : null}), onClose()
HandleSave ==
  /\ modal.isOpen
  /\ modal' = [modal EXCEPT
                 !.saved = Some(IF modal.dueDate # ""
                                THEN Some(NewDateISO(modal.dueDate, modal.offset))
                                ELSE Null),
                 !.isOpen = FALSE]
  /\ UNCHANGED <<words, now, result, calls, label, suggestions, hook, quickAdd>>

InitModal ==
  /\ modal = [isOpen |-> FALSE, date |-> Null, offset |-> 0, dueDate |-> "",
              touched |-> FALSE, saved |-> Null]
  /\ words = <<>> /\ now = At(2025, 1, 15, 10, 30, 15, 250)
  /\ result = Null /\ calls = <<>> /\ label = Null
  /\ suggestions = Null /\ hook = Null /\ quickAdd = Null

NextModal ==
  \/ \E date \in TaskDates, offset \in TimezoneOffsets : OpenModal(date, offset)
  \/ \E value \in DueDateInputs : SetDueDate(value)
  \/ HandleSave

SpecModal == InitModal /\ [][NextModal]_vars

(***************************************************************************)
(* C30                                                                     *)
(***************************************************************************)
\* C30: a save that did not touch the date field hands onSave the local
\* midnight of the calendar day of the task's date, in every timezone.
C30_SaveKeepsDueDate ==
  (modal.saved # Null /\ ~modal.touched /\ modal.date # Null) =>
    /\ modal.saved[1] # Null
    /\ modal.saved[1][1].day = modal.date[1].day
    /\ modal.saved[1][1].ms = 0

====
